---- MODULE Spec2Model ----
(***************************************************************************)
(* Model of the file-operation core of Gemini Engineer (src/main.py):      *)
(* normalize_path, is_binary_file, is_text_file, read_local_file,          *)
(* read_multiple_files, create_file, create_multiple_files, edit_file and  *)
(* GeminiEngineer.execute_tool, acting on a POSIX filesystem.              *)
(*                                                                         *)
(* A Python str is a sequence of runs [ch, n]: n copies of the character   *)
(* ch.  Ordinary characters are runs of one; the filler character "p"      *)
(* comes in long runs, so that files around the 1024-byte sniff window     *)
(* are represented with the program's own constants.  All characters of    *)
(* the model are ASCII: one character is one byte.                         *)
(***************************************************************************)
EXTENDS Integers, Sequences, FiniteSets, TLC

VARIABLES fs, call, result, acc, steps

vars == <<fs, call, result, acc, steps>>

(***************************************************************************)
(* Bounds of the model.                                                    *)
(***************************************************************************)
MaxSteps == 2
MaxBatch == 3

(***************************************************************************)
(* Strings.                                                                *)
(***************************************************************************)
Lit(cs) == [i \in 1..Len(cs) |-> [ch |-> cs[i], n |-> 1]]

Fill(k) == <<[ch |-> "p", n |-> k]>>

RECURSIVE StrLen(_)
StrLen(s) == IF s = <<>> THEN 0 ELSE Head(s).n + StrLen(Tail(s))

startswith(s, prefix) ==
    /\ Len(prefix) <= Len(s)
    /\ SubSeq(s, 1, Len(prefix)) = prefix

(***************************************************************************)
(* Python values as they arrive in a parameter bag.                        *)
(***************************************************************************)
PyStr(s) == [t |-> "str", v |-> s]
PyInt(i) == [t |-> "int", v |-> i]
PyList(l) == [t |-> "list", v |-> l]
PyDict(d) == [t |-> "dict", v |-> d]

(***************************************************************************)
(* Paths.  An absolute path is the sequence of its component names.        *)
(***************************************************************************)
Slash == Lit(<<"/">>)
Dot == Lit(<<".">>)
DotDot == Lit(<<".", ".">>)

RECURSIVE Split(_, _, _)
Split(s, i, cur) ==
    IF i > Len(s) THEN <<cur>>
    ELSE IF s[i].ch = "/" THEN <<cur>> \o Split(s, i + 1, <<>>)
    ELSE Split(s, i + 1, Append(cur, s[i]))

\* pathlib.Path(s): the components of s, empty and "." components dropped.
PathParts(s) == SelectSeq(Split(s, 1, <<>>), LAMBDA c : c # <<>> /\ c # Dot)

IsAbsolute(s) == s # <<>> /\ s[1].ch = "/"

Parent(p) == IF p = <<>> THEN <<>> ELSE SubSeq(p, 1, Len(p) - 1)

\* Path.name and Path.suffix
PathName(p) == IF p = <<>> THEN <<>> ELSE p[Len(p)]

LastDot(nm) ==
    LET D == {i \in 1..Len(nm) : nm[i].ch = "."}
    IN  IF D = {} THEN 0 ELSE CHOOSE i \in D : \A j \in D : j <= i

PathSuffix(p) ==
    LET nm == PathName(p)
        i == LastDot(nm)
    IN  IF 1 < i /\ i < Len(nm) THEN SubSeq(nm, i, Len(nm)) ELSE <<>>

\* str(path)
RECURSIVE PathStr(_)
PathStr(p) ==
    IF p = <<>> THEN Slash
    ELSE IF Len(p) = 1 THEN Slash \o p[1]
    ELSE PathStr(Parent(p)) \o Slash \o p[Len(p)]

\* The directory names of the host: the working directory /w, its sibling
\* /wx, an unrelated directory /o, and a symlink /w/ln -> /o.
N_w == Lit(<<"w">>)
N_wx == Lit(<<"w", "x">>)
N_o == Lit(<<"o">>)
N_ln == Lit(<<"l", "n">>)

CWD == <<N_w>>

SYMLINKS == [p \in {<<N_w, N_ln>>} |-> <<N_o>>]

\* Path.resolve(): make absolute, then walk the components, following
\* symlinks and applying ".." to the resolved prefix.
RECURSIVE Walk(_, _)
Walk(cur, parts) ==
    IF parts = <<>> THEN cur
    ELSE LET c == Head(parts)
             nxt == Append(cur, c)
         IN  IF c = DotDot THEN Walk(Parent(cur), Tail(parts))
             ELSE IF nxt \in DOMAIN SYMLINKS THEN Walk(SYMLINKS[nxt], Tail(parts))
             ELSE Walk(nxt, Tail(parts))

resolve(s) == Walk(IF IsAbsolute(s) THEN <<>> ELSE CWD, PathParts(s))

\* normalize_path without the containment test
normalize_path_unchecked(file_path) ==
    IF file_path.t # "str" THEN [exc |-> "TypeError", path |-> <<>>]
    ELSE [exc |-> "none", path |-> resolve(file_path.v)]

normalize_path(file_path) ==
    IF file_path.t # "str" THEN [exc |-> "TypeError", path |-> <<>>]
    ELSE LET path == resolve(file_path.v)
             cwd == Walk(<<>>, CWD)
         IN  IF ~startswith(PathStr(path), PathStr(cwd))
             THEN [exc |-> "ValueError", path |-> <<>>]
             ELSE [exc |-> "none", path |-> path]

\* The containment the sandbox is meant to enforce: p is the root or a
\* descendant of it.
IsInside(p) == Len(p) >= Len(CWD) /\ SubSeq(p, 1, Len(CWD)) = CWD

(***************************************************************************)
(* The filesystem: a function from the absolute paths that exist to nodes  *)
(* [kind, data].  Put(f, p, node) is f with p created or replaced.         *)
(***************************************************************************)
Dir == [kind |-> "dir", data |-> <<>>]
File(data) == [kind |-> "file", data |-> data]

Put(f, p, node) == [q \in DOMAIN f \cup {p} |-> IF q = p THEN node ELSE f[q]]

exists(f, p) == p \in DOMAIN f
is_file(f, p) == p \in DOMAIN f /\ f[p].kind = "file"
is_dir(f, p) == p \in DOMAIN f /\ f[p].kind = "dir"
st_size(f, p) == StrLen(f[p].data)

\* One filesystem access of a call: the operation and the path it acts on.
Acc(op, p) == [op |-> op, path |-> p]

\* a limit that a file of exactly 1 MiB exceeds
MAX_FILE_SIZE_exclusive == 1024 * 1024 - 1

\* File size limit (1MB)
MAX_FILE_SIZE == 1024 * 1024

\* The number of bytes is_binary_file reads.
SNIFF_SIZE == 1024

NUL == [ch |-> "NUL", n |-> 1]
CR == [ch |-> "CR", n |-> 1]
LF == [ch |-> "LF", n |-> 1]

\* f.read(k) on a file opened 'rb': the first k bytes.
RECURSIVE ReadBytes(_, _)
ReadBytes(data, k) ==
    IF data = <<>> \/ k = 0 THEN <<>>
    ELSE IF Head(data).n <= k
         THEN <<Head(data)>> \o ReadBytes(Tail(data), k - Head(data).n)
         ELSE <<[ch |-> Head(data).ch, n |-> k]>>

\* Text mode, newline=None, on read: "\r\n" and "\r" become "\n".
RECURSIVE TextRead(_)
TextRead(data) ==
    IF data = <<>> THEN <<>>
    ELSE IF Head(data) = CR
         THEN <<LF>> \o TextRead(IF Len(data) >= 2 /\ data[2] = LF
                                 THEN Tail(Tail(data)) ELSE Tail(data))
         ELSE <<Head(data)>> \o TextRead(Tail(data))

\* Text mode, newline=None, on write: "\n" becomes os.linesep.
LineSep == <<LF>>

RECURSIVE TextWrite(_)
TextWrite(s) ==
    IF s = <<>> THEN <<>>
    ELSE (IF Head(s) = LF THEN LineSep ELSE <<Head(s)>>) \o TextWrite(Tail(s))

\* is_binary_file that takes a file it cannot read for text
is_binary_file_lenient(f, path) ==
    IF ~is_file(f, path) THEN FALSE
    ELSE \E i \in DOMAIN ReadBytes(f[path].data, SNIFF_SIZE) :
            ReadBytes(f[path].data, SNIFF_SIZE)[i] = NUL

is_binary_file(f, path) ==
    IF ~is_file(f, path) THEN TRUE
    ELSE \E i \in DOMAIN ReadBytes(f[path].data, SNIFF_SIZE) :
            ReadBytes(f[path].data, SNIFF_SIZE)[i] = NUL

LowerCh(c) == CASE c = "T" -> "t" [] c = "X" -> "x" [] OTHER -> c

lower(s) == [i \in DOMAIN s |-> [ch |-> LowerCh(s[i].ch), n |-> s[i].n]]

TEXT_EXTENSIONS ==
    { Lit(<<".", "t", "x", "t">>), Lit(<<".", "p", "y">>), Lit(<<".", "j", "s">>),
      Lit(<<".", "t", "s">>), Lit(<<".", "h", "t", "m", "l">>),
      Lit(<<".", "c", "s", "s">>), Lit(<<".", "j", "s", "o", "n">>),
      Lit(<<".", "x", "m", "l">>), Lit(<<".", "y", "a", "m", "l">>),
      Lit(<<".", "y", "m", "l">>), Lit(<<".", "m", "d">>), Lit(<<".", "r", "s", "t">>),
      Lit(<<".", "s", "h">>), Lit(<<".", "b", "a", "t">>),
      Lit(<<".", "g", "i", "t", "i", "g", "n", "o", "r", "e">>),
      Lit(<<".", "e", "n", "v">>), Lit(<<".", "t", "o", "m", "l">>) }

\* mimetypes.guess_type by name: the family of the guessed type.
guess_type(path) ==
    LET sfx == lower(PathSuffix(path))
    IN  IF sfx \in {Lit(<<".", "c", "s", "v">>), Lit(<<".", "h", "t", "m">>),
                    Lit(<<".", "t", "x", "t">>), Lit(<<".", "p", "y">>)}
        THEN "text"
        ELSE IF sfx = Lit(<<".", "b", "i", "n">>) THEN "application"
        ELSE "none"

\* is_text_file without the MIME-type step
is_text_file_no_mime(f, path) ==
    IF lower(PathSuffix(path)) \in TEXT_EXTENSIONS THEN TRUE
    ELSE ~is_binary_file(f, path)

is_text_file(f, path) ==
    IF lower(PathSuffix(path)) \in TEXT_EXTENSIONS THEN TRUE
    ELSE IF guess_type(path) = "text" THEN TRUE
    ELSE ~is_binary_file(f, path)

\* The filesystem accesses is_text_file makes.
is_text_file_acc(path) ==
    IF lower(PathSuffix(path)) \in TEXT_EXTENSIONS \/ guess_type(path) = "text"
    THEN {} ELSE {Acc("sniff", path)}

(***************************************************************************)
(* The operations.  Each yields [fs, res, acc, exc]: the filesystem after  *)
(* the call, the dict returned, the filesystem accesses made, and the      *)
(* exception that left the function ("none" when it returned).             *)
(***************************************************************************)
Out(f, res, a) == [fs |-> f, res |-> res, acc |-> a, exc |-> "none"]
Raise(f, e, a) == [fs |-> f, res |-> <<>>, acc |-> a, exc |-> e]

\* a failure that also carries a true success flag
Err_with_flag(msg) == [error |-> msg, success |-> TRUE]

Err(msg) == [error |-> msg]

\* str(e) of the exception normalize_path raises
ExcText(e) ==
    IF e = "ValueError" THEN "Path is outside the current directory" ELSE e

\* read_local_file with the classification made before the size test
read_local_file_sniff_first(f, file_path) ==
    LET np == normalize_path(file_path)
        path == np.path
    IN  IF np.exc # "none"
        THEN Out(f, Err(<<"Failed to read", ExcText(np.exc)>>), {})
        ELSE IF ~exists(f, path)
        THEN Out(f, Err(<<"File does not exist">>), {Acc("exists", path)})
        ELSE IF ~is_file(f, path)
        THEN Out(f, Err(<<"is not a file">>),
                 {Acc("exists", path), Acc("is_file", path)})
        ELSE IF ~is_text_file(f, path)
        THEN Out(f, Err(<<"File appears to be binary or non-textual">>),
                 {Acc("exists", path), Acc("is_file", path)}
                     \cup is_text_file_acc(path))
        ELSE IF st_size(f, path) > MAX_FILE_SIZE
        THEN Out(f, Err(<<"File is too large">>),
                 {Acc("exists", path), Acc("is_file", path), Acc("stat", path)}
                     \cup is_text_file_acc(path))
        ELSE LET content == TextRead(f[path].data)
             IN  Out(f, [success |-> TRUE,
                         file_path |-> PathStr(path),
                         content |-> content,
                         size |-> StrLen(content)],
                     {Acc("exists", path), Acc("is_file", path), Acc("stat", path),
                      Acc("read", path)} \cup is_text_file_acc(path))

read_local_file(f, file_path) ==
    LET np == normalize_path(file_path)
        path == np.path
    IN  IF np.exc # "none"
        THEN Out(f, Err(<<"Failed to read", ExcText(np.exc)>>), {})
        ELSE IF ~exists(f, path)
        THEN Out(f, Err(<<"File does not exist">>), {Acc("exists", path)})
        ELSE IF ~is_file(f, path)
        THEN Out(f, Err(<<"is not a file">>),
                 {Acc("exists", path), Acc("is_file", path)})
        ELSE IF st_size(f, path) > MAX_FILE_SIZE
        THEN Out(f, Err(<<"File is too large">>),
                 {Acc("exists", path), Acc("is_file", path), Acc("stat", path)})
        ELSE IF ~is_text_file(f, path)
        THEN Out(f, Err(<<"File appears to be binary or non-textual">>),
                 {Acc("exists", path), Acc("is_file", path), Acc("stat", path)}
                     \cup is_text_file_acc(path))
        ELSE LET content == TextRead(f[path].data)
             IN  Out(f, [success |-> TRUE,
                         file_path |-> PathStr(path),
                         content |-> content,
                         size |-> StrLen(content)],
                     {Acc("exists", path), Acc("is_file", path), Acc("stat", path),
                      Acc("read", path)} \cup is_text_file_acc(path))

\* path.parent.mkdir(parents=True, exist_ok=True)
Ancestors(d) == {SubSeq(d, 1, k) : k \in 0..Len(d)}

mkdir_fails(f, d) == \E a \in Ancestors(d) : is_file(f, a)

mkdir(f, d) == [q \in DOMAIN f \cup Ancestors(d) |-> IF q \in DOMAIN f THEN f[q] ELSE Dir]

\* create_file with the file opened for appending instead of truncated
create_file_append(f, file_path, content) ==
    LET np == normalize_path(file_path)
        path == np.path
        f1 == mkdir(f, Parent(path))
        old == IF is_file(f1, path) THEN f1[path].data ELSE <<>>
    IN  IF np.exc # "none"
        THEN Out(f, Err(<<"Failed to create", ExcText(np.exc)>>), {})
        ELSE IF mkdir_fails(f, Parent(path))
        THEN Out(f, Err(<<"Failed to create", "FileExistsError">>),
                 {Acc("mkdir", Parent(path))})
        ELSE IF is_dir(f1, path)
        THEN Out(f1, Err(<<"Failed to create", "IsADirectoryError">>),
                 {Acc("mkdir", Parent(path)), Acc("write", path)})
        ELSE IF content.t # "str"
        THEN Out(Put(f1, path, File(old)), Err(<<"Failed to create", "TypeError">>),
                 {Acc("mkdir", Parent(path)), Acc("write", path)})
        ELSE Out(Put(f1, path, File(old \o TextWrite(content.v))),
                 [success |-> TRUE,
                  file_path |-> PathStr(path),
                  size |-> StrLen(content.v),
                  message |-> "created successfully"],
                 {Acc("mkdir", Parent(path)), Acc("write", path)})

create_file(f, file_path, content) ==
    LET np == normalize_path(file_path)
        path == np.path
        f1 == mkdir(f, Parent(path))
    IN  IF np.exc # "none"
        THEN Out(f, Err(<<"Failed to create", ExcText(np.exc)>>), {})
        ELSE IF mkdir_fails(f, Parent(path))
        THEN Out(f, Err(<<"Failed to create", "FileExistsError">>),
                 {Acc("mkdir", Parent(path))})
        ELSE IF is_dir(f1, path)
        THEN Out(f1, Err(<<"Failed to create", "IsADirectoryError">>),
                 {Acc("mkdir", Parent(path)), Acc("write", path)})
        ELSE IF content.t # "str"
        THEN \* open(path, 'w') has truncated the file when f.write raises
             Out(Put(f1, path, File(<<>>)), Err(<<"Failed to create", "TypeError">>),
                 {Acc("mkdir", Parent(path)), Acc("write", path)})
        ELSE Out(Put(f1, path, File(TextWrite(content.v))),
                 [success |-> TRUE,
                  file_path |-> PathStr(path),
                  size |-> StrLen(content.v),
                  message |-> "created successfully"],
                 {Acc("mkdir", Parent(path)), Acc("write", path)})

\* content.find(s): the index of the first occurrence of s, 0 when absent
Find(content, s) ==
    LET I == {i \in 1..(Len(content) - Len(s) + 1) :
                 SubSeq(content, i, i + Len(s) - 1) = s}
    IN  IF I = {} THEN 0 ELSE CHOOSE i \in I : \A j \in I : i <= j

\* content.replace(s, t, 1)
replace(content, s, t) ==
    LET i == Find(content, s)
    IN  IF i = 0 THEN content
        ELSE SubSeq(content, 1, i - 1) \o t \o SubSeq(content, i + Len(s), Len(content))

edit_file(f, file_path, original_snippet, new_snippet) ==
    LET np == normalize_path(file_path)
        path == np.path
        content == TextRead(f[path].data)
        new_content == replace(content, original_snippet.v, new_snippet.v)
    IN  IF np.exc # "none"
        THEN Out(f, Err(<<"Failed to edit", ExcText(np.exc)>>), {})
        ELSE IF ~exists(f, path)
        THEN Out(f, Err(<<"File does not exist">>), {Acc("exists", path)})
        ELSE IF is_dir(f, path)
        THEN Out(f, Err(<<"Failed to edit", "IsADirectoryError">>),
                 {Acc("exists", path), Acc("read", path)})
        ELSE IF original_snippet.t # "str"
        THEN Out(f, Err(<<"Failed to edit", "TypeError">>),
                 {Acc("exists", path), Acc("read", path)})
        ELSE IF Find(content, original_snippet.v) = 0
        THEN Out(f, Err(<<"Original snippet not found">>),
                 {Acc("exists", path), Acc("read", path)})
        ELSE IF new_snippet.t # "str"
        THEN Out(f, Err(<<"Failed to edit", "TypeError">>),
                 {Acc("exists", path), Acc("read", path)})
        ELSE Out(Put(f, path, File(TextWrite(new_content))),
                 [success |-> TRUE,
                  file_path |-> PathStr(path),
                  message |-> "edited successfully",
                  changes |-> [original_length |-> StrLen(content),
                               new_length |-> StrLen(new_content),
                               diff |-> StrLen(new_content) - StrLen(content)]],
                 {Acc("exists", path), Acc("read", path), Acc("write", path)})

\* the ignore list without 'venv'
IGNORED_NAMES_short ==
    { Lit(<<"_", "_", "p", "y", "c", "a", "c", "h", "e", "_", "_">>),
      Lit(<<"n", "o", "d", "e", "_", "m", "o", "d", "u", "l", "e", "s">>) }

IGNORED_NAMES ==
    { Lit(<<"_", "_", "p", "y", "c", "a", "c", "h", "e", "_", "_">>),
      Lit(<<"v", "e", "n", "v">>),
      Lit(<<"n", "o", "d", "e", "_", "m", "o", "d", "u", "l", "e", "s">>) }

PyNone == [t |-> "none", v |-> 0]

\* path.iterdir(): the entries of the directory, symlinks included
iterdir(f, path) ==
    {q \in (DOMAIN f \cup DOMAIN SYMLINKS) \ {<<>>} : Parent(q) = path}

\* is_dir(), is_file() and stat() follow a symlink
Target(q) == IF q \in DOMAIN SYMLINKS THEN SYMLINKS[q] ELSE q

list_directory(f, dir_path) ==
    LET np == normalize_path(dir_path)
        path == np.path
        shown == {q \in iterdir(f, path) :
                     ~(PathName(q)[1].ch = "." \/ PathName(q) \in IGNORED_NAMES)}
        items == {[name |-> PathName(q),
                   type |-> IF is_dir(f, Target(q)) THEN "directory" ELSE "file",
                   size |-> IF is_file(f, Target(q))
                            THEN PyInt(st_size(f, Target(q))) ELSE PyNone] : q \in shown}
    IN  IF np.exc # "none"
        THEN Out(f, Err(<<"Failed to list directory", ExcText(np.exc)>>), {})
        ELSE IF ~exists(f, path)
        THEN Out(f, Err(<<"Directory does not exist">>), {Acc("exists", path)})
        ELSE IF ~is_dir(f, path)
        THEN Out(f, Err(<<"is not a directory">>),
                 {Acc("exists", path), Acc("is_dir", path)})
        ELSE Out(f, [success |-> TRUE,
                     directory |-> PathStr(path),
                     items |-> items,
                     count |-> Cardinality(items)],
                 {Acc("exists", path), Acc("is_dir", path), Acc("iterdir", path)}
                     \cup {Acc("stat", Target(q)) : q \in shown})

\* The characters of the dict keys the batch operations look up.
KeyLit(k) ==
    IF k = "path" THEN Lit(<<"p", "a", "t", "h">>)
    ELSE Lit(<<"c", "o", "n", "t", "e", "n", "t">>)

\* "for x in v": the values the loop sees; a dict yields its keys.
Iterable(v) == v.t \in {"list", "str", "dict"}

Iter(v) ==
    IF v.t = "list" THEN v.v
    ELSE IF v.t = "str" THEN [i \in 1..Len(v.v) |-> PyStr(<<v.v[i]>>)]
    ELSE [i \in 1..Len(SelectSeq(<<"path", "content">>, LAMBDA k : k \in DOMAIN v.v)) |->
            PyStr(KeyLit(SelectSeq(<<"path", "content">>, LAMBDA k : k \in DOMAIN v.v)[i]))]

\* the aggregate flag computed from the successes instead of the failures
BatchResult_any_success(results, errors) ==
    [success |-> DOMAIN results # {}, files |-> results, errors |-> errors]

BatchResult(results, errors) ==
    [success |-> Len(errors) = 0, files |-> results, errors |-> errors]

RECURSIVE read_loop(_, _, _, _, _)
read_loop(f, items, results, errors, a) ==
    IF items = <<>> THEN Out(f, BatchResult(results, errors), a)
    ELSE LET file_path == Head(items)
             r == read_local_file(f, file_path)
         IN  IF "error" \in DOMAIN r.res
             THEN read_loop(f, Tail(items), results,
                            Append(errors, [item |-> file_path, error |-> r.res.error]),
                            a \cup r.acc)
             ELSE read_loop(f, Tail(items), Put(results, file_path.v, r.res), errors,
                            a \cup r.acc)

\* read_multiple_files that gives up at the first path that fails
read_multiple_files_stop(f, file_paths) ==
    IF ~Iterable(file_paths) THEN Raise(f, "TypeError", {})
    ELSE LET items == Iter(file_paths)
             bad == {i \in DOMAIN items : "error" \in DOMAIN read_local_file(f, items[i]).res}
             last == IF bad = {} THEN Len(items) ELSE CHOOSE i \in bad : \A j \in bad : i <= j
         IN  read_loop(f, SubSeq(items, 1, last), <<>>, <<>>, {})

read_multiple_files(f, file_paths) ==
    IF ~Iterable(file_paths) THEN Raise(f, "TypeError", {})
    ELSE read_loop(f, Iter(file_paths), <<>>, <<>>, {})

\* key in file_info
Contains(file_info, k) ==
    IF file_info.t = "dict" THEN k \in DOMAIN file_info.v
    ELSE IF file_info.t = "str" THEN Find(file_info.v, KeyLit(k)) # 0
    ELSE \E i \in DOMAIN file_info.v : file_info.v[i] = PyStr(KeyLit(k))

MALFORMED == <<"File info must contain 'path' and 'content' keys">>

RECURSIVE create_loop(_, _, _, _, _)
create_loop(f, items, results, errors, a) ==
    IF items = <<>> THEN Out(f, BatchResult(results, errors), a)
    ELSE LET file_info == Head(items)
             r == create_file(f, file_info.v.path, file_info.v.content)
         IN  IF ~Iterable(file_info) THEN Raise(f, "TypeError", a)
             ELSE IF ~Contains(file_info, "path") \/ ~Contains(file_info, "content")
             THEN create_loop(f, Tail(items), results,
                              Append(errors, [item |-> PyNone, error |-> MALFORMED]), a)
             ELSE IF file_info.t # "dict" THEN Raise(f, "TypeError", a)
             ELSE IF "error" \in DOMAIN r.res
             THEN create_loop(r.fs, Tail(items), results,
                              Append(errors, [item |-> file_info.v.path,
                                              error |-> r.res.error]),
                              a \cup r.acc)
             ELSE create_loop(r.fs, Tail(items),
                              Put(results, file_info.v.path.v, r.res), errors,
                              a \cup r.acc)

\* create_multiple_files that gives up at the first malformed entry
create_multiple_files_abort(f, files) ==
    IF ~Iterable(files) THEN Raise(f, "TypeError", {})
    ELSE LET items == Iter(files)
             bad == {i \in DOMAIN items :
                        /\ Iterable(items[i])
                        /\ ~Contains(items[i], "path") \/ ~Contains(items[i], "content")}
             last == IF bad = {} THEN Len(items) ELSE CHOOSE i \in bad : \A j \in bad : i <= j
         IN  create_loop(f, SubSeq(items, 1, last), <<>>, <<>>, {})

create_multiple_files(f, files) ==
    IF ~Iterable(files) THEN Raise(f, "TypeError", {})
    ELSE create_loop(f, Iter(files), <<>>, <<>>, {})

(***************************************************************************)
(* The dispatcher.                                                         *)
(***************************************************************************)
TOOL_FUNCTIONS ==
    {"read_file", "read_multiple_files", "create_file", "create_multiple_files",
     "edit_file", "list_directory"}

\* the signatures with read_local_file's parameter named "path"
Signature_renamed(tool) ==
    CASE tool = "read_file" -> {"path"}
      [] tool = "read_multiple_files" -> {"file_paths"}
      [] tool = "create_file" -> {"file_path", "content"}
      [] tool = "create_multiple_files" -> {"files"}
      [] tool = "edit_file" -> {"file_path", "original_snippet", "new_snippet"}
      [] tool = "list_directory" -> {"dir_path"}

\* The parameters of each tool function's signature, and those without a default.
Signature(tool) ==
    CASE tool = "read_file" -> {"file_path"}
      [] tool = "read_multiple_files" -> {"file_paths"}
      [] tool = "create_file" -> {"file_path", "content"}
      [] tool = "create_multiple_files" -> {"files"}
      [] tool = "edit_file" -> {"file_path", "original_snippet", "new_snippet"}
      [] tool = "list_directory" -> {"dir_path"}

Required(tool) == IF tool = "list_directory" THEN {} ELSE Signature(tool)

\* tool_function(**parameters), once the keywords bind
Apply(f, tool, kw) ==
    CASE tool = "read_file" -> read_local_file(f, kw.file_path)
      [] tool = "read_multiple_files" -> read_multiple_files(f, kw.file_paths)
      [] tool = "create_file" -> create_file(f, kw.file_path, kw.content)
      [] tool = "create_multiple_files" -> create_multiple_files(f, kw.files)
      [] tool = "edit_file" ->
             edit_file(f, kw.file_path, kw.original_snippet, kw.new_snippet)
      [] tool = "list_directory" ->
             list_directory(f, IF "dir_path" \in DOMAIN kw THEN kw.dir_path
                               ELSE PyStr(Dot))

Binds(tool, parameters) ==
    /\ parameters.t = "dict"
    /\ DOMAIN parameters.v \subseteq Signature(tool)
    /\ Required(tool) \subseteq DOMAIN parameters.v

Falsy(parameters) ==
    parameters.t = "none" \/ (parameters.t = "dict" /\ DOMAIN parameters.v = {})

\* execute_tool that falls back to list_directory() for an unknown name
execute_tool_fallback(f, tool_name, parameters) ==
    IF tool_name \notin TOOL_FUNCTIONS \/ (tool_name = "list_directory" /\ Falsy(parameters))
    THEN list_directory(f, PyStr(Dot))
    ELSE IF ~Binds(tool_name, parameters)
    THEN Out(f, Err(<<"Tool execution failed", "TypeError">>), {})
    ELSE LET r == Apply(f, tool_name, parameters.v)
         IN  IF r.exc # "none"
             THEN Out(r.fs, Err(<<"Tool execution failed", r.exc>>), r.acc)
             ELSE r

\* execute_tool without its try/except: what the call raises leaves it
execute_tool_propagate(f, tool_name, parameters) ==
    IF tool_name \notin TOOL_FUNCTIONS
    THEN Out(f, Err(<<"Unknown tool">>), {})
    ELSE IF tool_name = "list_directory" /\ Falsy(parameters)
    THEN list_directory(f, PyStr(Dot))
    ELSE IF ~Binds(tool_name, parameters)
    THEN Raise(f, "TypeError", {})
    ELSE Apply(f, tool_name, parameters.v)

execute_tool(f, tool_name, parameters) ==
    IF tool_name \notin TOOL_FUNCTIONS
    THEN Out(f, Err(<<"Unknown tool">>), {})
    ELSE IF tool_name = "list_directory" /\ Falsy(parameters)
    THEN list_directory(f, PyStr(Dot))
    ELSE IF ~Binds(tool_name, parameters)
    THEN Out(f, Err(<<"Tool execution failed", "TypeError">>), {})
    ELSE LET r == Apply(f, tool_name, parameters.v)
         IN  IF r.exc # "none"
             THEN Out(r.fs, Err(<<"Tool execution failed", r.exc>>), r.acc)
             ELSE r

(***************************************************************************)
(* The inputs the model draws from.                                        *)
(***************************************************************************)
N_a == Lit(<<"a", ".", "p", "y">>)
N_b == Lit(<<"d", "a", "t", "a">>)
N_c == Lit(<<"c", ".", "c", "s", "v">>)
N_d == Lit(<<"d">>)
N_n == Lit(<<"n">>)
N_f == Lit(<<"f">>)
N_s == Lit(<<"s">>)

P_a == PyStr(N_a)
P_b == PyStr(N_b)
P_c == PyStr(N_n \o Slash \o N_c)
P_d == PyStr(N_d)
P_dot == PyStr(Dot)
P_up == PyStr(DotDot)
P_sib == PyStr(DotDot \o Slash \o N_wx \o Slash \o N_f)
P_out == PyStr(DotDot \o Slash \o N_o \o Slash \o N_s)
P_abs == PyStr(Slash \o N_o \o Slash \o N_s)
P_ln == PyStr(N_ln \o Slash \o N_s)
P_in == PyStr(Slash \o N_w \o Slash \o N_b)

Paths == {P_a, P_b, P_c, P_d, P_dot, P_up, P_sib, P_out, P_abs, P_ln, P_in}

C_empty == PyStr(<<>>)
C_aba == PyStr(Lit(<<"a", "b", "a">>))
C_nul == PyStr(Lit(<<"a", "NUL">>))
C_crlf == PyStr(Lit(<<"a", "CR", "LF", "b">>))
C_near == PyStr(Fill(SNIFF_SIZE - 1) \o <<NUL>>)
C_far == PyStr(Fill(SNIFF_SIZE) \o <<NUL>>)

Contents == {C_empty, C_aba, C_nul, C_crlf, C_near, C_far}

Snippets == {PyStr(<<>>), PyStr(Lit(<<"a">>)), PyStr(Lit(<<"b", "a">>)), PyStr(<<CR>>)}
NewSnippets == {PyStr(Lit(<<"a">>)), PyStr(Lit(<<"c">>))}

BatchPaths == {P_a, P_b, P_c, P_out}

FileInfos ==
    { PyDict([path |-> P_a, content |-> C_crlf]),
      PyDict([path |-> P_c, content |-> C_nul]),
      PyDict([path |-> P_b, content |-> C_aba]),
      PyDict([path |-> P_out, content |-> C_aba]),
      PyDict([path |-> P_b]),
      PyDict([content |-> C_aba]) }

S_a == PyStr(Lit(<<"a">>))
S_c == PyStr(Lit(<<"c">>))

ToolNames == TOOL_FUNCTIONS \cup {"delete_file"}

\* Parameter bags: well-formed ones, ones with a required parameter absent,
\* and ones with a value of the wrong shape.
Bags ==
    { PyNone,
      PyDict(<<>>),
      PyDict([file_path |-> P_a]),
      PyDict([file_path |-> P_sib]),
      PyDict([file_path |-> P_a, content |-> C_crlf]),
      PyDict([file_path |-> P_a, content |-> PyInt(123)]),
      PyDict([file_path |-> PyInt(123), content |-> C_aba]),
      PyDict([content |-> C_aba]),
      PyDict([file_paths |-> PyList(<<P_a, P_out>>)]),
      PyDict([file_paths |-> P_b]),
      PyDict([file_paths |-> PyInt(123)]),
      PyDict([files |-> PyList(<<PyDict([path |-> P_c, content |-> C_aba]),
                                 PyDict([path |-> P_b])>>)]),
      PyDict([files |-> P_a]),
      PyDict([files |-> PyList(<<PyDict([path |-> P_a, content |-> PyInt(123)])>>)]),
      PyDict([file_path |-> P_a, original_snippet |-> S_a, new_snippet |-> S_c]),
      PyDict([file_path |-> P_a, original_snippet |-> S_a, new_snippet |-> PyInt(123)]),
      PyDict([dir_path |-> P_dot]) }

SeqsUpTo(S, k) == UNION {[1..m -> S] : m \in 0..k}

\* The filesystem at start: /w holds a.py, data and the directory d; the
\* sibling /wx and the unrelated /o each hold one file.
InitFs ==
    LET E == { <<<<>>, Dir>>, <<<<N_w>>, Dir>>, <<<<N_wx>>, Dir>>, <<<<N_o>>, Dir>>,
               <<<<N_w, N_d>>, Dir>>,
               <<<<N_w, N_a>>, File(Lit(<<"a", "b", "a">>))>>,
               <<<<N_w, N_b>>, File(Lit(<<"a", "NUL">>))>>,
               <<<<N_wx, N_f>>, File(Lit(<<"s">>))>>,
               <<<<N_o, N_s>>, File(Lit(<<"s">>))>> }
    IN  [p \in {e[1] : e \in E} |-> (CHOOSE e \in E : e[1] = p)[2]]

(***************************************************************************)
(* The state machine: one action per operation called directly, one for    *)
(* the dispatcher.  call is the last call made, result what it returned    *)
(* ([raised |-> e] when it raised), acc the filesystem accesses it made.   *)
(***************************************************************************)
Returned(r) == IF r.exc # "none" THEN [raised |-> r.exc] ELSE r.res

Do(c, r) ==
    /\ steps < MaxSteps
    /\ steps' = steps + 1
    /\ call' = c
    /\ fs' = r.fs
    /\ result' = Returned(r)
    /\ acc' = r.acc

ReadFile ==
    \E p \in Paths :
        Do([op |-> "read_file", args |-> [file_path |-> p]], read_local_file(fs, p))

\* A batch operation is examined as one call, made on one of the
\* filesystems of BatchInitFs.
ReadMultipleFiles ==
    \E ps \in SeqsUpTo(BatchPaths, MaxBatch) :
        call.op = "none" /\
        Do([op |-> "read_multiple_files", args |-> [file_paths |-> PyList(ps)]],
           read_multiple_files(fs, PyList(ps)))

CreateFile ==
    \E p \in Paths, c \in Contents :
        Do([op |-> "create_file", args |-> [file_path |-> p, content |-> c]],
           create_file(fs, p, c))

CreateMultipleFiles ==
    \E fl \in SeqsUpTo(FileInfos, MaxBatch) :
        call.op = "none" /\
        Do([op |-> "create_multiple_files", args |-> [files |-> PyList(fl)]],
           create_multiple_files(fs, PyList(fl)))

EditFile ==
    \E p \in Paths, s \in Snippets, t \in NewSnippets :
        Do([op |-> "edit_file",
            args |-> [file_path |-> p, original_snippet |-> s, new_snippet |-> t]],
           edit_file(fs, p, s, t))

ListDirectory ==
    \E p \in Paths :
        Do([op |-> "list_directory", args |-> [dir_path |-> p]], list_directory(fs, p))

ExecuteTool ==
    \E tool_name \in ToolNames, parameters \in Bags :
        Do([op |-> "execute_tool", args |-> [tool_name |-> tool_name,
                                             parameters |-> parameters]],
           execute_tool(fs, tool_name, parameters))

Init ==
    /\ fs = InitFs
    /\ call = [op |-> "none", args |-> <<>>]
    /\ result = <<>>
    /\ acc = {}
    /\ steps = 0

\* The single-file operations and the dispatcher.
Next ==
    \/ ReadFile
    \/ CreateFile
    \/ EditFile
    \/ ListDirectory
    \/ ExecuteTool

Spec == Init /\ [][Next]_vars

\* The batch operations, on a sandbox that earlier create_file calls have
\* prepared in one of four ways.
BatchInitFs ==
    { InitFs,
      create_file(InitFs, P_c, C_aba).fs,
      create_file(InitFs, PyStr(N_n), C_aba).fs,
      create_file(InitFs, P_b, C_crlf).fs }

InitBatch ==
    /\ fs \in BatchInitFs
    /\ call = [op |-> "none", args |-> <<>>]
    /\ result = <<>>
    /\ acc = {}
    /\ steps = 0

NextBatch ==
    \/ ReadMultipleFiles
    \/ CreateMultipleFiles

SpecBatch == InitBatch /\ [][NextBatch]_vars

(***************************************************************************)
(* Vocabulary of the properties.                                           *)
(***************************************************************************)
OUTSIDE == "Path is outside the current directory"

IsError(r) == "error" \in DOMAIN r
IsSuccess(r) == "success" \in DOMAIN r /\ r.success

\* The result is the failure normalize_path's rejection turns into.
OutOfSandbox(r) == IsError(r) /\ Len(r.error) = 2 /\ r.error[2] = OUTSIDE

SingleOps == {"read_file", "create_file", "edit_file", "list_directory"}

\* The path argument of a direct call of a single-file operation.
PathArg == IF call.op = "list_directory" THEN call.args.dir_path ELSE call.args.file_path

\* C1: normalize_path fails with the out-of-sandbox error whenever the
\* resolved form of the candidate path is neither the sandbox root nor a
\* descendant of it (".." traversal, absolute paths, symlinks, a sibling
\* directory whose name starts with the root's name), and succeeds with the
\* resolved path whenever it is the root or a descendant.  Observed on every
\* direct call of a single-file operation, which starts with normalize_path.
C1_SandboxContainment ==
    call.op \in SingleOps =>
        /\ OutOfSandbox(result) <=> ~IsInside(resolve(PathArg.v))
        /\ IsSuccess(result) /\ call.op # "list_directory" =>
               result.file_path = PathStr(resolve(PathArg.v))

\* C2: after any sequence of tool invocations nothing outside the sandbox
\* root has been created or modified, and no call has read the content of
\* a file or directory outside the root.
C2_EffectsConfined ==
    /\ \A p \in DOMAIN fs \cup DOMAIN InitFs :
           ~IsInside(p) => p \in DOMAIN fs /\ p \in DOMAIN InitFs /\ fs[p] = InitFs[p]
    /\ \A a \in acc : a.op \in {"read", "write", "iterdir"} => IsInside(a.path)

\* A NUL byte lies among the first SNIFF_SIZE bytes of data.
NulInWindow(data) ==
    \E i \in DOMAIN data :
        data[i].ch = "NUL" /\ StrLen(SubSeq(data, 1, i - 1)) < SNIFF_SIZE

OnAllowlist(p) == lower(PathSuffix(p)) \in TEXT_EXTENSIONS
MimeText(p) == guess_type(p) = "text"

\* s with every "\r\n" and every lone "\r" replaced by "\n"
Universal(s) ==
    LET I == {i \in 1..Len(s) : ~(s[i] = LF /\ i > 1 /\ s[i - 1] = CR)}
        nth(k) == CHOOSE i \in I : Cardinality({j \in I : j < i}) = k - 1
    IN  [k \in 1..Cardinality(I) |-> IF s[nth(k)] = CR THEN LF ELSE s[nth(k)]]

CreatedOk == call.op = "create_file" /\ IsSuccess(result)

\* C3 (as stated): a successful create_file(p, c) immediately followed by
\* read_file(p) returns a success result whose content is exactly c.
C3_RoundTrip ==
    CreatedOk =>
        LET r == read_local_file(fs, call.args.file_path).res
        IN  IsSuccess(r) /\ r.content = call.args.content.v

\* C3 (amended): a successful create_file(p, c), c within the size ceiling,
\* immediately followed by read_file(p) returns a success result whenever the
\* file is not classified Binary (c has no NUL byte among its first 1024
\* bytes, or the name of p is text by suffix or MIME guess), and the content
\* returned is c with "\r\n" and "\r" read as "\n": exactly c when c holds
\* no carriage return.  When the file is classified Binary the read fails.
C3_RoundTripText ==
    (CreatedOk /\ StrLen(call.args.content.v) <= MAX_FILE_SIZE) =>
        LET c == call.args.content.v
            p == resolve(call.args.file_path.v)
            r == read_local_file(fs, call.args.file_path).res
        IN  IF NulInWindow(c) /\ ~OnAllowlist(p) /\ ~MimeText(p)
            THEN IsError(r)
            ELSE /\ IsSuccess(r)
                 /\ r.content = Universal(c)
                 /\ (\A i \in DOMAIN c : c[i] # CR) => r.content = c

\* A file that already held text is overwritten with content that has a NUL
\* byte, under a name that is text by suffix.
C3_Witness ==
    /\ CreatedOk
    /\ call.args.file_path = P_a
    /\ call.args.content = C_nul
    /\ steps = 2

\* C4: a successful edit_file(p, s, t) rewrites the file to its previous
\* content with only the first occurrence of s replaced by t, all other
\* text intact; edit_file(p, s, s) leaves the content identical.
C4_FirstOccurrenceOnly ==
    [][(call'.op = "edit_file" /\ IsSuccess(result')) =>
        LET p == resolve(call'.args.file_path.v)
            s == call'.args.original_snippet.v
            t == call'.args.new_snippet.v
            old == fs[p].data
            new == fs'[p].data
        IN  /\ \E i \in 1..(Len(old) + 1) :
                  /\ SubSeq(old, i, i + Len(s) - 1) = s
                  /\ \A j \in 1..(i - 1) : SubSeq(old, j, j + Len(s) - 1) # s
                  /\ new = SubSeq(old, 1, i - 1) \o t \o SubSeq(old, i + Len(s), Len(old))
            /\ s = t => new = old]_vars

ReadOfRegularFile ==
    /\ call.op = "read_file"
    /\ normalize_path(call.args.file_path).exc = "none"
    /\ is_file(fs, resolve(call.args.file_path.v))
    /\ st_size(fs, resolve(call.args.file_path.v)) <= MAX_FILE_SIZE

BinaryRejected(r) ==
    IsError(r) /\ r.error = <<"File appears to be binary or non-textual">>

DeclaredType(name) == IF name \in {"file_paths", "files"} THEN "list" ELSE "str"

\* A registered tool is called with a required parameter absent or a
\* parameter of the wrong shape.
MalformedCall ==
    /\ call.op = "execute_tool"
    /\ call.args.tool_name \in TOOL_FUNCTIONS
    /\ call.args.parameters.t = "dict"
    /\ \/ \E k \in Required(call.args.tool_name) : k \notin DOMAIN call.args.parameters.v
       \/ \E k \in DOMAIN call.args.parameters.v :
              /\ k \in Signature(call.args.tool_name)
              /\ call.args.parameters.v[k].t # DeclaredType(k)

\* C6: validation precedes filesystem access: execute_tool called for a
\* registered tool with a required parameter absent or a parameter of the
\* wrong shape returns a failure, and no filesystem access has happened.
C6_ValidationBeforeAccess ==
    MalformedCall => ~IsSuccess(result) /\ acc = {}

\* A file entry with both keys, and one that create_file can create in the
\* filesystem f: an acceptable path with no file above it and no directory
\* at it.  Files are never removed and never become directories, so an entry
\* creatable in the filesystem the batch leaves was creatable at its turn.
WellFormed(e) == e.t = "dict" /\ {"path", "content"} \subseteq DOMAIN e.v

Creatable(f, e) ==
    /\ WellFormed(e)
    /\ e.v.content.t = "str"
    /\ normalize_path(e.v.path).exc = "none"
    /\ \A a \in Ancestors(Parent(resolve(e.v.path.v))) : ~is_file(f, a)
    /\ ~is_dir(f, resolve(e.v.path.v))

FI_a == PyDict([path |-> P_a, content |-> C_crlf])
FI_c == PyDict([path |-> P_c, content |-> C_nul])
FI_no_content == PyDict([path |-> P_b])

\* C7: create_multiple_files on a list with malformed entries (missing
\* 'path' or 'content') among valid ones still creates the file of every
\* valid entry, wherever it stands, records exactly one item failure per
\* malformed entry, and reports success = false.
C7_BatchIsolation ==
    call.op = "create_multiple_files" =>
        LET files == call.args.files.v
            same(i) == {j \in DOMAIN files :
                           /\ Creatable(fs, files[j])
                           /\ resolve(files[j].v.path.v) = resolve(files[i].v.path.v)}
            last(i) == CHOOSE j \in same(i) : \A k \in same(i) : k <= j
        IN  /\ \A i \in DOMAIN files :
                   Creatable(fs, files[i]) =>
                       /\ files[i].v.path.v \in DOMAIN result.files
                       /\ IsSuccess(result.files[files[i].v.path.v])
                       /\ is_file(fs, resolve(files[i].v.path.v))
                       /\ fs[resolve(files[i].v.path.v)].data = files[last(i)].v.content.v
            /\ Cardinality({k \in DOMAIN result.errors : result.errors[k].error = MALFORMED})
                   = Cardinality({i \in DOMAIN files : ~WellFormed(files[i])})
            /\ (\E i \in DOMAIN files : ~WellFormed(files[i])) => result.success = FALSE

\* The batch of the specification's example: valid, malformed, valid.
C7_Witness ==
    /\ call.op = "create_multiple_files"
    /\ call.args.files.v = <<FI_a, FI_no_content, FI_c>>
    /\ DOMAIN result.files = {P_a.v, P_c.v}
    /\ Len(result.errors) = 1
    /\ result.success = FALSE

\* C8: read_multiple_files applies read_file to every path independently:
\* a failing path does not stop the others, every path that reads is in
\* the result under its original path string, every path that fails is
\* recorded as one item failure.
C8_ReadFanOut ==
    call.op = "read_multiple_files" =>
        LET paths == call.args.file_paths.v
            r(i) == read_local_file(fs, paths[i]).res
            failed == {i \in DOMAIN paths : IsError(r(i))}
        IN  /\ \A i \in DOMAIN paths \ failed :
                   /\ paths[i].v \in DOMAIN result.files
                   /\ result.files[paths[i].v] = r(i)
                   /\ r(i).content = Universal(fs[resolve(paths[i].v)].data)
            /\ \A i \in failed :
                   \E k \in DOMAIN result.errors :
                       result.errors[k] = [item |-> paths[i], error |-> r(i).error]
            /\ Len(result.errors) = Cardinality(failed)
            /\ DOMAIN result.files = {paths[i].v : i \in DOMAIN paths \ failed}

\* A path that fails stands before one that reads.
C8_Witness ==
    /\ call.op = "read_multiple_files"
    /\ call.args.file_paths.v = <<P_out, P_b, P_a>>
    /\ DOMAIN result.files = {P_a.v}
    /\ Len(result.errors) = 2

\* The number of items of the last batch call that failed.
ItemFailures ==
    IF call.op = "read_multiple_files"
    THEN Cardinality({i \in DOMAIN call.args.file_paths.v :
                         IsError(read_local_file(fs, call.args.file_paths.v[i]).res)})
    ELSE Cardinality({i \in DOMAIN call.args.files.v :
                         ~Creatable(fs, call.args.files.v[i])})

\* The keys of the items of the last batch call that succeeded.
ItemSuccesses ==
    IF call.op = "read_multiple_files"
    THEN {call.args.file_paths.v[i].v : i \in
             {j \in DOMAIN call.args.file_paths.v :
                 ~IsError(read_local_file(fs, call.args.file_paths.v[j]).res)}}
    ELSE {call.args.files.v[i].v.path.v : i \in
             {j \in DOMAIN call.args.files.v : Creatable(fs, call.args.files.v[j])}}

\* C9: for both batch operations the aggregate success flag is true iff no
\* item failed, and the results of the items that succeeded are present
\* also when the flag is false.
C9_AggregateSuccess ==
    call.op \in {"read_multiple_files", "create_multiple_files"} =>
        /\ result.success <=> ItemFailures = 0
        /\ \A k \in ItemSuccesses : k \in DOMAIN result.files /\ IsSuccess(result.files[k])

\* A batch that partly succeeded.
C9_Witness ==
    /\ call.op = "create_multiple_files"
    /\ result.success = FALSE
    /\ ItemFailures = 1
    /\ Cardinality(ItemSuccesses) = 2

\* C10: execute_tool with a name that is not registered returns the
\* unknown-tool failure whatever the parameter bag, and the filesystem is
\* neither accessed nor changed.
C10_UnknownTool ==
    [][(call'.op = "execute_tool" /\ call'.args.tool_name \notin TOOL_FUNCTIONS) =>
        /\ result' = [error |-> <<"Unknown tool">>]
        /\ acc' = {}
        /\ fs' = fs]_vars

\* delete_file called with a well-formed bag, on a filesystem already changed.
C10_Witness ==
    /\ call.op = "execute_tool"
    /\ call.args.tool_name = "delete_file"
    /\ call.args.parameters = PyDict([file_path |-> P_a])
    /\ fs # InitFs

(***************************************************************************)
(* Reads around the size ceiling: the sandbox holds one more file, big.py  *)
(* or big, whose size is within MaxDelta bytes of MAX_FILE_SIZE and whose  *)
(* only NUL byte, if any, is its first or its last byte.                   *)
(***************************************************************************)
MaxDelta == 1

N_big == Lit(<<"b", "i", "g">>)
N_bigpy == Lit(<<"b", "i", "g", ".", "p", "y">>)

P_big == PyStr(N_big)
P_bigpy == PyStr(N_bigpy)

BigData ==
    UNION {{Fill(n), <<NUL>> \o Fill(n - 1), Fill(n - 1) \o <<NUL>>} :
              n \in (MAX_FILE_SIZE - MaxDelta)..(MAX_FILE_SIZE + MaxDelta)}

SizeInitFs == {Put(InitFs, <<N_w, nm>>, File(d)) : nm \in {N_big, N_bigpy}, d \in BigData}

SizePaths == {P_big, P_bigpy, P_a, P_b, P_c, P_d, P_dot, P_out}

ReadBigFile ==
    \E p \in SizePaths :
        Do([op |-> "read_file", args |-> [file_path |-> p]], read_local_file(fs, p))

InitSize ==
    /\ fs \in SizeInitFs
    /\ call = [op |-> "none", args |-> <<>>]
    /\ result = <<>>
    /\ acc = {}
    /\ steps = 0

NextSize == ReadBigFile

SpecSize == InitSize /\ [][NextSize]_vars

TooLarge(r) == IsError(r) /\ r.error = <<"File is too large">>

\* The last call read an existing regular file inside the sandbox.
ReadOfFile ==
    /\ call.op = "read_file"
    /\ normalize_path(call.args.file_path).exc = "none"
    /\ is_file(fs, resolve(call.args.file_path.v))

\* The classifier's verdict on the file at p, from its name and its bytes.
ClassifiedBinary(f, p) == NulInWindow(f[p].data) /\ ~OnAllowlist(p) /\ ~MimeText(p)

\* C11: the size ceiling is inclusive at exactly 1 MiB: read_file on a text
\* file of exactly 1048576 bytes succeeds, on a file of 1048577 bytes it
\* fails with the too-large error, and the too-large error is returned for
\* a regular file exactly when its size exceeds 1048576 bytes.
C11_SizeCeiling ==
    ReadOfFile =>
        LET p == resolve(call.args.file_path.v)
            size == StrLen(fs[p].data)
        IN  /\ (size = 1048576 /\ ~ClassifiedBinary(fs, p)) =>
                   IsSuccess(result) /\ result.size = 1048576
            /\ size = 1048577 => TooLarge(result)
            /\ TooLarge(result) <=> size > 1048576

\* A text file of exactly 1 MiB has been read.
C11_Witness ==
    /\ ReadOfFile
    /\ call.args.file_path = P_big
    /\ StrLen(fs[resolve(P_big.v)].data) = 1048576
    /\ IsSuccess(result)
    /\ result.size = 1048576

\* The call tool_function(**parameters) that execute_tool makes raises: the
\* keywords do not bind, or the operation itself raises.
UnderlyingFault(f, tool_name, parameters) ==
    /\ tool_name \in TOOL_FUNCTIONS
    /\ ~(tool_name = "list_directory" /\ Falsy(parameters))
    /\ \/ parameters.t # "dict"
       \/ \E k \in DOMAIN parameters.v : k \notin Signature(tool_name)
       \/ \E k \in Required(tool_name) : k \notin DOMAIN parameters.v
       \/ Apply(f, tool_name, parameters.v).exc # "none"

\* C12: execute_tool never lets an exception propagate: for every tool name,
\* every parameter bag (missing, extra or wrongly typed parameters, an empty
\* or absent bag) and every filesystem state it returns a result value, and
\* a fault raised by the underlying operation comes back as a failure
\* carrying the message "Tool execution failed".
C12_NeverPropagates ==
    [][call'.op = "execute_tool" =>
        /\ "raised" \notin DOMAIN result'
        /\ IsError(result') \/ "success" \in DOMAIN result'
        /\ UnderlyingFault(fs, call'.args.tool_name, call'.args.parameters) =>
               /\ IsError(result')
               /\ result'.error[1] = "Tool execution failed"]_vars

\* read_multiple_files handed an integer, which it cannot iterate.
C12_Witness ==
    /\ call.op = "execute_tool"
    /\ call.args.tool_name = "read_multiple_files"
    /\ call.args.parameters = PyDict([file_paths |-> PyInt(123)])
    /\ result = Err(<<"Tool execution failed", "TypeError">>)

(***************************************************************************)
(* The six operations called directly with arguments of any shape, as      *)
(* Python lets a caller do, and the dispatcher beside them.                *)
(***************************************************************************)
DirectArgs ==
    { P_a, P_b, P_out, PyInt(123), PyNone,
      PyList(<<P_a, P_out>>),
      PyList(<<FI_a, FI_no_content>>),
      PyList(<<PyInt(123)>>),
      PyDict([path |-> P_a, content |-> C_aba]) }

DirectSnippets == {S_a, PyInt(123)}

DirectReadFile ==
    \E x \in DirectArgs :
        Do([op |-> "read_file", args |-> [file_path |-> x]], read_local_file(fs, x))

DirectReadMultipleFiles ==
    \E x \in DirectArgs :
        Do([op |-> "read_multiple_files", args |-> [file_paths |-> x]],
           read_multiple_files(fs, x))

DirectCreateFile ==
    \E x \in DirectArgs, c \in {C_crlf, PyInt(123)} :
        Do([op |-> "create_file", args |-> [file_path |-> x, content |-> c]],
           create_file(fs, x, c))

DirectCreateMultipleFiles ==
    \E x \in DirectArgs :
        Do([op |-> "create_multiple_files", args |-> [files |-> x]],
           create_multiple_files(fs, x))

DirectEditFile ==
    \E x \in DirectArgs, s \in DirectSnippets, t \in DirectSnippets :
        Do([op |-> "edit_file",
            args |-> [file_path |-> x, original_snippet |-> s, new_snippet |-> t]],
           edit_file(fs, x, s, t))

DirectListDirectory ==
    \E x \in DirectArgs :
        Do([op |-> "list_directory", args |-> [dir_path |-> x]], list_directory(fs, x))

NextDirect ==
    \/ DirectReadFile
    \/ DirectReadMultipleFiles
    \/ DirectCreateFile
    \/ DirectCreateMultipleFiles
    \/ DirectEditFile
    \/ DirectListDirectory
    \/ ExecuteTool

SpecDirect == Init /\ [][NextDirect]_vars

\* C13: every core file operation called directly is total: for every
\* argument it returns a result and never raises past its own boundary;
\* all failure is reported as data.
C13_Total ==
    call.op \in TOOL_FUNCTIONS =>
        /\ "raised" \notin DOMAIN result
        /\ IsError(result) \/ "success" \in DOMAIN result

\* The last call returned (it did not raise).
HasReturned == call.op # "none" /\ "raised" \notin DOMAIN result

\* The last call ran a batch operation, directly or through execute_tool.
BatchCall ==
    \/ call.op \in {"read_multiple_files", "create_multiple_files"}
    \/ /\ call.op = "execute_tool"
       /\ call.args.tool_name \in {"read_multiple_files", "create_multiple_files"}

\* C14 (as stated): every result returned by a core operation or by
\* execute_tool is exactly one of success or failure: never both a true
\* success flag and an error key, and a result without an error key has a
\* true success flag.
C14_ExactlyOne ==
    HasReturned =>
        /\ ~(IsSuccess(result) /\ IsError(result))
        /\ ~IsError(result) => IsSuccess(result)

\* C14 (amended): a returned result never carries both a success flag and
\* an error key, and a result without an error key carries a success flag.
\* That flag is false only in the result of a batch operation in which an
\* item failed: a batch result has no error key, lists its item failures
\* under "errors", has a true flag exactly when that list is empty, and the
\* item results it carries are successes without an error key.
C14_ResultShape ==
    HasReturned =>
        /\ ~("success" \in DOMAIN result /\ IsError(result))
        /\ ~IsError(result) =>
               /\ "success" \in DOMAIN result
               /\ ~result.success => BatchCall
        /\ (BatchCall /\ ~IsError(result)) =>
               /\ result.success <=> Len(result.errors) = 0
               /\ \A k \in DOMAIN result.files :
                      IsSuccess(result.files[k]) /\ ~IsError(result.files[k])

\* A batch in which one path was read and one was refused.
C14_Witness ==
    /\ call.op = "read_multiple_files"
    /\ call.args.file_paths = PyList(<<P_a, P_out>>)
    /\ ~IsError(result)
    /\ ~result.success
    /\ DOMAIN result.files = {P_a.v}

\* The test normalize_path applies to x: a string whose resolved form, as
\* text, starts with the text of the working directory.
Accepted(x) == x.t = "str" /\ startswith(PathStr(resolve(x.v)), PathStr(CWD))

\* C15: every filesystem access made by a core file operation (existence
\* test, stat, sniff, open for read or write, mkdir, directory iteration)
\* happens only after normalize_path has accepted the path in the same call,
\* and acts on the resolved path, on the parent that mkdir creates, or on an
\* entry of the listed directory; when normalize_path rejects the path the
\* operation returns the failure without any filesystem access or effect.
C15_NormalizeFirst ==
    [][call'.op \in SingleOps =>
        LET x == IF call'.op = "list_directory" THEN call'.args.dir_path
                 ELSE call'.args.file_path
            p == resolve(x.v)
        IN  /\ ~Accepted(x) => acc' = {} /\ fs' = fs /\ IsError(result')
            /\ \A a \in acc' :
                   /\ Accepted(x)
                   /\ \/ a.path = p
                      \/ a.op = "mkdir" /\ a.path = Parent(p)
                      \/ /\ call'.op = "list_directory" /\ a.op = "stat"
                         /\ \E q \in DOMAIN fs \cup DOMAIN SYMLINKS :
                                Parent(q) = p /\ q # <<>> /\ a.path = Target(q)]_vars

\* create_file through the symlink that leads out of the sandbox is refused
\* before anything is touched.
C15_Witness ==
    /\ call.op = "create_file"
    /\ call.args.file_path = P_ln
    /\ OutOfSandbox(result)
    /\ acc = {}
    /\ steps = 2

\* C16: binary files are rejected for edit as they are for read: edit_file
\* on a file that the classifier reports Binary (NUL byte in the first 1024
\* bytes, name not recognised as text) returns a failure and does not
\* rewrite the file.
C16_BinaryEditRejected ==
    [][(/\ call'.op = "edit_file"
        /\ Accepted(call'.args.file_path)
        /\ is_file(fs, resolve(call'.args.file_path.v))
        /\ ClassifiedBinary(fs, resolve(call'.args.file_path.v))) =>
            IsError(result') /\ fs' = fs]_vars

\* C17: create_file(p, c) for p inside the sandbox creates the missing
\* parent directories (existing ones are no error) and writes c, replacing
\* the whole previous content of a file at p.  It fails only when a file
\* stands where a parent directory is needed or a directory stands at p;
\* after success the file's content is exactly c whatever it held before,
\* every parent is a directory, nothing else has changed, and the result
\* reports the resolved path and the character count of c.
C17_CreateOverwrites ==
    [][(call'.op = "create_file" /\ IsInside(resolve(call'.args.file_path.v))) =>
        LET p == resolve(call'.args.file_path.v)
            c == call'.args.content.v
            parents == {SubSeq(p, 1, k) : k \in 0..(Len(p) - 1)}
        IN  /\ IsSuccess(result') <=>
                   (\A a \in parents : ~is_file(fs, a)) /\ ~is_dir(fs, p)
            /\ IsSuccess(result') =>
                   /\ fs'[p] = [kind |-> "file", data |-> c]
                   /\ \A a \in parents : is_dir(fs', a)
                   /\ DOMAIN fs' = DOMAIN fs \cup parents \cup {p}
                   /\ \A q \in DOMAIN fs : q # p => fs'[q] = fs[q]
                   /\ result'.file_path = PathStr(p)
                   /\ result'.size = StrLen(c)]_vars

\* A file that held other content is overwritten, after an earlier call
\* created the directory n for n/c.csv.
C17_Witness ==
    /\ CreatedOk
    /\ call.args.file_path = P_a
    /\ call.args.content = C_far
    /\ fs[<<N_w, N_a>>].data = C_far.v
    /\ is_dir(fs, <<N_w, N_n>>)
    /\ is_file(fs, <<N_w, N_n, N_c>>)

NotFound(r) == IsError(r) /\ r.error = <<"File does not exist">>
NotAFile(r) == IsError(r) /\ r.error = <<"is not a file">>

\* C18: read_file checks its failure conditions in a fixed order and
\* reports the first that applies: not-found when the path is absent,
\* not-a-file when it is a directory, too-large when the size exceeds
\* 1 MiB, binary-rejected when the classifier reports Binary; an oversized
\* binary file yields too-large, and only a file passing all four checks is
\* decoded and returned with its resolved path, content and character count.
C18_CheckOrder ==
    (call.op = "read_file" /\ Accepted(call.args.file_path)) =>
        LET p == resolve(call.args.file_path.v)
            file == p \in DOMAIN fs /\ fs[p].kind = "file"
            big == StrLen(fs[p].data) > 1048576
        IN  /\ NotFound(result) <=> p \notin DOMAIN fs
            /\ NotAFile(result) <=> (p \in DOMAIN fs /\ ~file)
            /\ TooLarge(result) <=> (file /\ big)
            /\ BinaryRejected(result) <=> (file /\ ~big /\ ClassifiedBinary(fs, p))
            /\ IsSuccess(result) <=> (file /\ ~big /\ ~ClassifiedBinary(fs, p))
            /\ IsSuccess(result) =>
                   /\ result.file_path = PathStr(p)
                   /\ result.content = Universal(fs[p].data)
                   /\ result.size = StrLen(result.content)

\* An oversized file whose first byte is NUL, under a name that is not
\* text, is refused as too large.
C18_Witness ==
    /\ call.op = "read_file"
    /\ call.args.file_path = P_big
    /\ StrLen(fs[resolve(P_big.v)].data) > 1048576
    /\ ClassifiedBinary(fs, resolve(P_big.v))
    /\ TooLarge(result)

\* s occurs in d as a literal substring.
IsSubstring(s, d) ==
    \E i \in 1..(Len(d) - Len(s) + 1) : SubSeq(d, i, i + Len(s) - 1) = s

SnippetNotFound(r) == IsError(r) /\ r.error = <<"Original snippet not found">>

\* C19: edit_file(p, s, t) fails with not-found when the file is absent and
\* with snippet-not-found exactly when s is not a literal substring of the
\* file's current content; whenever s is a substring, the empty snippet
\* included, the edit returns success with original_length, new_length and
\* a diff equal to new_length minus original_length.
C19_SnippetLookup ==
    [][(call'.op = "edit_file" /\ Accepted(call'.args.file_path)) =>
        LET p == resolve(call'.args.file_path.v)
            s == call'.args.original_snippet.v
        IN  /\ p \notin DOMAIN fs => NotFound(result')
            /\ is_file(fs, p) =>
                   /\ SnippetNotFound(result') <=> ~IsSubstring(s, fs[p].data)
                   /\ IsSubstring(s, fs[p].data) =>
                          /\ IsSuccess(result')
                          /\ result'.changes.diff =
                                 result'.changes.new_length - result'.changes.original_length]_vars

(***************************************************************************)
(* Listings: the sandbox also holds the hidden file .env, the directory    *)
(* venv with a file in it, and a file inside the directory d.              *)
(***************************************************************************)
N_env == Lit(<<".", "e", "n", "v">>)
N_venv == Lit(<<"v", "e", "n", "v">>)

ListFs ==
    Put(Put(Put(Put(InitFs, <<N_w, N_env>>, File(Lit(<<"s">>))),
                <<N_w, N_venv>>, Dir),
            <<N_w, N_venv, N_f>>, File(Lit(<<"s">>))),
        <<N_w, N_d, N_s>>, File(Lit(<<"a", "b", "a">>)))

\* list_directory() with its default argument
ListDirectoryDefault ==
    Do([op |-> "list_directory", args |-> <<>>], list_directory(fs, PyStr(Dot)))

InitList ==
    /\ fs = ListFs
    /\ call = [op |-> "none", args |-> <<>>]
    /\ result = <<>>
    /\ acc = {}
    /\ steps = 0

NextList ==
    \/ ListDirectory
    \/ ListDirectoryDefault
    \/ CreateFile
    \/ ExecuteTool

SpecList == InitList /\ [][NextList]_vars

\* The last call listed a directory: list_directory called directly, or
\* dispatched by execute_tool with no parameters or with dir_path alone.
ListCall ==
    \/ call.op = "list_directory"
    \/ /\ call.op = "execute_tool"
       /\ call.args.tool_name = "list_directory"
       /\ \/ call.args.parameters.t = "none"
          \/ /\ call.args.parameters.t = "dict"
             /\ DOMAIN call.args.parameters.v \subseteq {"dir_path"}

\* The directory asked for: "." when none is given.
ListArg ==
    LET kw == IF call.op = "list_directory" THEN call.args
              ELSE IF call.args.parameters.t = "dict" THEN call.args.parameters.v
              ELSE <<>>
    IN  IF "dir_path" \in DOMAIN kw THEN kw.dir_path ELSE PyStr(Dot)

Hidden(nm) == nm[1].ch = "."

IgnoreNames ==
    { Lit(<<"_", "_", "p", "y", "c", "a", "c", "h", "e", "_", "_">>),
      Lit(<<"v", "e", "n", "v">>),
      Lit(<<"n", "o", "d", "e", "_", "m", "o", "d", "u", "l", "e", "s">>) }

\* The entries directly inside the directory p, symlinks included.
Children(f, p) ==
    {q \in DOMAIN f \cup DOMAIN SYMLINKS :
        Len(q) = Len(p) + 1 /\ SubSeq(q, 1, Len(p)) = p}

\* What a listing shows of the entry q: its name, the kind of what it
\* leads to and, for a file, the size.
Entry(f, q) ==
    LET node == f[IF q \in DOMAIN SYMLINKS THEN SYMLINKS[q] ELSE q]
    IN  [name |-> q[Len(q)],
         type |-> IF node.kind = "dir" THEN "directory" ELSE "file",
         size |-> IF node.kind = "file" THEN PyInt(StrLen(node.data)) ELSE PyNone]

\* C20: list_directory(d) returns exactly the immediate children of d
\* (never entries of sub-directories) whose name does not begin with '.'
\* and is not '__pycache__', 'venv' or 'node_modules', each with its kind
\* and, for files only, its size; count equals the number of items; with no
\* argument it lists the sandbox root; it fails with not-found for an
\* absent path and with not-a-directory for a file.
C20_Listing ==
    (ListCall /\ Accepted(ListArg)) =>
        LET p == resolve(ListArg.v)
        IN  /\ p \notin DOMAIN fs => result = [error |-> <<"Directory does not exist">>]
            /\ is_file(fs, p) => result = [error |-> <<"is not a directory">>]
            /\ is_dir(fs, p) =>
                   /\ IsSuccess(result)
                   /\ result.directory = PathStr(p)
                   /\ result.items =
                          {Entry(fs, q) : q \in
                              {c \in Children(fs, p) :
                                  ~Hidden(c[Len(c)]) /\ c[Len(c)] \notin IgnoreNames}}
                   /\ result.count = Cardinality(result.items)

\* list_directory() with no argument lists the sandbox root: a.py, data, d
\* and ln, without .env and venv.
C20_Witness ==
    /\ call.op = "list_directory"
    /\ call.args = <<>>
    /\ IsSuccess(result)
    /\ result.directory = PathStr(CWD)
    /\ {e.name : e \in result.items} = {N_a, N_b, N_d, N_ln}
    /\ result.count = 4

(***************************************************************************)
(* The classifier applied on its own: is_text_file called on a path of     *)
(* the sandbox at which stands a file, a directory, or nothing.            *)
(***************************************************************************)
N_upper == Lit(<<"N", ".", "T", "X", "T">>)
N_bin == Lit(<<"x", ".", "b", "i", "n">>)

ClassNames == {N_a, N_upper, N_c, N_bin, N_b, N_env}

ClassNodes ==
    {File(c.v) : c \in {C_empty, C_aba, C_nul, C_near, C_far}} \cup {Dir}

ClassifyFs == {Put(InitFs, <<N_w, nm>>, node) : nm \in ClassNames, node \in ClassNodes}

ClassPaths == {<<N_w, nm>> : nm \in ClassNames \cup {N_d, N_n}}

IsTextFile ==
    \E path \in ClassPaths :
        Do([op |-> "is_text_file", args |-> [file_path |-> path]],
           Out(fs, [text |-> is_text_file(fs, path)], is_text_file_acc(path)))

InitClassify ==
    /\ fs \in ClassifyFs
    /\ call = [op |-> "none", args |-> <<>>]
    /\ result = <<>>
    /\ acc = {}
    /\ steps = 0

NextClassify == IsTextFile

SpecClassify == InitClassify /\ [][NextClassify]_vars

\* C21: is_text_file applies its policy in a fixed order: a suffix on the
\* known-text allowlist gives Text without looking at the content;
\* otherwise a MIME guess by name in the 'text/' family gives Text, again
\* without looking; otherwise up to 1024 bytes are sniffed and the file is
\* Binary iff a NUL byte is among them; and when the sniff cannot read the
\* file (a directory, an absent path) the classification is Binary.
C21_ClassifierOrder ==
    call.op = "is_text_file" =>
        LET p == call.args.file_path
        IN  IF OnAllowlist(p) \/ MimeText(p)
            THEN result.text /\ acc = {}
            ELSE /\ acc = {[op |-> "sniff", path |-> p]}
                 /\ ~result.text <=>
                        \/ p \notin DOMAIN fs
                        \/ fs[p].kind # "file"
                        \/ NulInWindow(fs[p].data)

\* A directory whose name says nothing is sniffed, cannot be read, and is
\* classified Binary.
C21_Witness ==
    /\ call.op = "is_text_file"
    /\ call.args.file_path = <<N_w, N_bin>>
    /\ is_dir(fs, <<N_w, N_bin>>)
    /\ ~result.text

(***************************************************************************)
(* The tool catalogue, and the dispatcher called with the bags the         *)
(* catalogue declares: for each tool, its required parameters and no       *)
(* others, each of the declared type.                                      *)
(***************************************************************************)
TOOLS ==
    [ read_file |->
          [properties |-> [file_path |-> [type |-> "string"]],
           required |-> {"file_path"}],
      read_multiple_files |->
          [properties |-> [file_paths |-> [type |-> "array", items |-> "string"]],
           required |-> {"file_paths"}],
      create_file |->
          [properties |-> [file_path |-> [type |-> "string"],
                           content |-> [type |-> "string"]],
           required |-> {"file_path", "content"}],
      create_multiple_files |->
          [properties |-> [files |-> [type |-> "array", items |-> "object"]],
           required |-> {"files"}],
      edit_file |->
          [properties |-> [file_path |-> [type |-> "string"],
                           original_snippet |-> [type |-> "string"],
                           new_snippet |-> [type |-> "string"]],
           required |-> {"file_path", "original_snippet", "new_snippet"}],
      list_directory |->
          [properties |-> [dir_path |-> [type |-> "string"]],
           required |-> {}] ]

DeclaredBags(tool) ==
    CASE tool = "read_file" -> {PyDict([file_path |-> x]) : x \in Paths}
      [] tool = "read_multiple_files" ->
             {PyDict([file_paths |-> PyList(ps)]) : ps \in SeqsUpTo({P_a, P_out}, 2)}
      [] tool = "create_file" ->
             {PyDict([file_path |-> x, content |-> c]) :
                 x \in {P_a, P_c, P_d, P_out}, c \in {C_aba, C_crlf}}
      [] tool = "create_multiple_files" ->
             {PyDict([files |-> PyList(fl)]) : fl \in SeqsUpTo({FI_a, FI_c}, 2)}
      [] tool = "edit_file" ->
             {PyDict([file_path |-> x, original_snippet |-> S_a, new_snippet |-> S_c]) :
                 x \in {P_a, P_c, P_d, P_out}}
      [] tool = "list_directory" -> {PyDict(<<>>)}

DispatchDeclared ==
    \E tool_name \in DOMAIN TOOLS :
        \E parameters \in DeclaredBags(tool_name) :
            Do([op |-> "execute_tool", args |-> [tool_name |-> tool_name,
                                                 parameters |-> parameters]],
               execute_tool(fs, tool_name, parameters))

NextCatalogue == DispatchDeclared

SpecCatalogue == Init /\ [][NextCatalogue]_vars

\* The value v has the type the catalogue declares.
HasDeclaredType(v, decl) ==
    IF decl.type = "string" THEN v.t = "str"
    ELSE /\ v.t = "list"
         /\ \A i \in DOMAIN v.v :
                IF decl.items = "string" THEN v.v[i].t = "str"
                ELSE /\ WellFormed(v.v[i])
                     /\ v.v[i].v.path.t = "str"
                     /\ v.v[i].v.content.t = "str"

\* The bag holds exactly the required parameters of the tool, each of the
\* declared type.
ExactBag(tool, bag) ==
    /\ tool \in DOMAIN TOOLS
    /\ bag.t = "dict"
    /\ DOMAIN bag.v = TOOLS[tool].required
    /\ \A k \in DOMAIN bag.v : HasDeclaredType(bag.v[k], TOOLS[tool].properties[k])

\* The operation the tool name stands for, called with the keywords kw.
Operation(f, tool, kw) ==
    CASE tool = "read_file" -> read_local_file(f, kw.file_path)
      [] tool = "read_multiple_files" -> read_multiple_files(f, kw.file_paths)
      [] tool = "create_file" -> create_file(f, kw.file_path, kw.content)
      [] tool = "create_multiple_files" -> create_multiple_files(f, kw.files)
      [] tool = "edit_file" ->
             edit_file(f, kw.file_path, kw.original_snippet, kw.new_snippet)
      [] tool = "list_directory" -> list_directory(f, PyStr(Dot))

\* C22: the tool catalogue and the dispatch table agree: the names declared
\* in TOOLS are the keys of TOOL_FUNCTIONS and are read_file,
\* read_multiple_files, create_file, create_multiple_files, edit_file and
\* list_directory; the parameters each tool declares are those of its
\* function, the required ones those without a default; and a bag holding
\* exactly a tool's required parameters with the declared types is
\* dispatched to the operation without a parameter error: what execute_tool
\* returns and does is what the operation returns and does.
C22_CatalogueAgrees ==
    [][/\ DOMAIN TOOLS = TOOL_FUNCTIONS
       /\ TOOL_FUNCTIONS = {"read_file", "read_multiple_files", "create_file",
                            "create_multiple_files", "edit_file", "list_directory"}
       /\ \A tool \in DOMAIN TOOLS :
              /\ DOMAIN TOOLS[tool].properties = Signature(tool)
              /\ TOOLS[tool].required = Required(tool)
       /\ (/\ call'.op = "execute_tool"
           /\ ExactBag(call'.args.tool_name, call'.args.parameters)) =>
              LET r == Operation(fs, call'.args.tool_name, call'.args.parameters.v)
              IN  /\ r.exc = "none"
                  /\ result' = r.res
                  /\ fs' = r.fs
                  /\ ~(IsError(result') /\ result'.error[1] \in
                          {"Tool execution failed", "Unknown tool"})]_vars

\* list_directory dispatched with the empty bag, its exact required set,
\* after an earlier call created a file.
C22_Witness ==
    /\ call.op = "execute_tool"
    /\ call.args.tool_name = "list_directory"
    /\ call.args.parameters = PyDict(<<>>)
    /\ IsSuccess(result)
    /\ fs # InitFs

-----------------------------------------------------------------------------
\* Failing writes.

\* The files of a filesystem: every path that holds a file, with its data.
FilesOf(f) == {<<q, f[q].data>> : q \in {r \in DOMAIN f : f[r].kind = "file"}}

\* C23: when create_file or edit_file returns a failure, the target keeps its
\* content and its existence, and no file anywhere is left truncated,
\* partially written or newly created: the files after the call are the
\* files before it.
C23_FailureLeavesFiles ==
    [][(call'.op \in {"create_file", "edit_file"} /\ IsError(result')) =>
        /\ FilesOf(fs') = FilesOf(fs)
        /\ call'.args.file_path.t = "str" =>
               LET p == resolve(call'.args.file_path.v)
               IN  /\ (p \in DOMAIN fs') <=> (p \in DOMAIN fs)
                   /\ p \in DOMAIN fs => fs'[p] = fs[p]]_vars

(***************************************************************************)
(* The tool loop of stream_gemini_response.  A response is the sequence of *)
(* its function calls, in the order their parts arrived; each has a name   *)
(* and string arguments.  What the loop prints is kept as far as it can    *)
(* raise: console.print reads its text as console markup, where "[name]"   *)
(* opens a style, "[/name]" closes the latest open "[name]" and "[/]" the  *)
(* latest open style, and a closing tag with nothing to close raises       *)
(* MarkupError, whose message quotes the tag.                              *)
(***************************************************************************)
MaxCalls == 3

\* the characters a markup tag may start with
TagStart ==
    { "a", "b", "c", "d", "e", "f", "g", "h", "i", "j", "k", "l", "m", "n",
      "o", "p", "q", "r", "s", "t", "u", "v", "w", "x", "y", "z",
      "#", "/", "@" }

\* The index of the "]" that ends a tag starting at s[i]; 0 when no tag
\* starts there.
TagEnd(s, i) ==
    IF s[i].ch # "[" \/ i + 1 > Len(s) THEN 0
    ELSE IF s[i + 1].ch \notin TagStart THEN 0
    ELSE LET cl == {j \in (i + 2)..Len(s) : s[j].ch = "]"}
         IN  IF cl = {} THEN 0
             ELSE LET j == CHOOSE m \in cl : \A n \in cl : m <= n
                  IN  IF \E k \in (i + 2)..(j - 1) : s[k].ch = "[" THEN 0 ELSE j

\* Rendering markup from s[i] on with the open styles in stack: the closing
\* tag that has nothing to close, <<>> when the text renders.
RECURSIVE Render(_, _, _)
Render(s, i, stack) ==
    IF i > Len(s) THEN <<>>
    ELSE LET j == TagEnd(s, i)
         IN  IF j = 0 THEN Render(s, i + 1, stack)
             ELSE LET name == SubSeq(s, i + 1, j - 1)
                      style == Tail(name)
                      open == {k \in 1..Len(stack) : stack[k] = style}
                  IN  IF name[1].ch # "/"
                      THEN Render(s, j + 1, Append(stack, name))
                      ELSE IF style = <<>>
                      THEN IF stack = <<>> THEN SubSeq(s, i, j)
                           ELSE Render(s, j + 1, SubSeq(stack, 1, Len(stack) - 1))
                      ELSE IF open = {} THEN SubSeq(s, i, j)
                      ELSE LET m == CHOOSE k \in open : \A n \in open : n <= k
                           IN  Render(s, j + 1, SubSeq(stack, 1, m - 1)
                                                \o SubSeq(stack, m + 1, Len(stack)))

\* console.print(text): <<>> when it prints, else str(e) of the MarkupError
MarkupFault(text) == Render(text, 1, <<>>)

Styled(style, text) ==
    Lit(<<"[">>) \o style \o Lit(<<"]">>) \o text \o Lit(<<"[", "/">>) \o style \o Lit(<<"]">>)

\* The arguments of a function call as a parameter bag; a string argument
\* is its string_value, or str(value) of a str: the string itself.
Parameters(tool_call) == PyDict(tool_call.args)

ParamOrder == <<"file_path", "dir_path", "content", "original_snippet", "new_snippet">>

\* str(v)[:50] followed by "..." when v is longer than 50 characters
Shown(v) ==
    IF StrLen(v) > 50 THEN ReadBytes(v, 50) \o Lit(<<".", ".", ".">>) ELSE v

RECURSIVE param_display(_, _)
param_display(kw, i) ==
    IF i > Len(ParamOrder) THEN <<>>
    ELSE (IF ParamOrder[i] \in DOMAIN kw
          THEN Lit(<<"=">>) \o Shown(kw[ParamOrder[i]].v) ELSE <<>>)
         \o param_display(kw, i + 1)

\* "[cyan]> [i/n] tool_name(k=v, ...)[/cyan]"; create_multiple_files shows
\* the number of files in place of the parameters.
Announcement(tool_name, parameters) ==
    Styled(Lit(<<"c", "y", "a", "n">>),
           Lit(<<"[", "1", "/", "1", "]">>) \o
           (IF tool_name = "create_multiple_files" THEN <<>>
            ELSE param_display(parameters.v, 1)))

\* "[red]Error processing tool call i: {e}[/red]" of the loop's handler and
\* "[red]Error during conversation: {e}[/red]" of the function's handler
ErrorNotice(e) == Styled(Lit(<<"r", "e", "d">>), Lit(<<":">>) \o e)

\* for i, tool_call in enumerate(tool_calls, 1): the executed calls with
\* their results are collected in log.
RECURSIVE ToolLoop(_, _, _, _)
ToolLoop(f, tool_calls, i, log) ==
    IF i > Len(tool_calls) THEN [fs |-> f, executed |-> log, exc |-> <<>>]
    ELSE LET tool_name == tool_calls[i].name
             parameters == Parameters(tool_calls[i])
             e == MarkupFault(Announcement(tool_name, parameters))
         IN  IF e # <<>>
             THEN IF MarkupFault(ErrorNotice(e)) # <<>>
                  THEN [fs |-> f, executed |-> log,
                        exc |-> MarkupFault(ErrorNotice(e))]
                  ELSE ToolLoop(f, tool_calls, i + 1, log)
             ELSE CHOOSE end \in
                      { ToolLoop(r.fs, tool_calls, i + 1,
                                 Append(log, [i |-> i, tool_name |-> tool_name,
                                              parameters |-> parameters,
                                              result |-> r.res])) :
                        r \in {execute_tool(f, tool_name, parameters)} } : TRUE

\* The part of stream_gemini_response after the response has been read:
\* the tool loop inside the function's own try.
stream_gemini_response(f, tool_calls) ==
    CHOOSE end \in
        { [fs |-> r.fs, executed |-> r.executed,
           exc |-> IF r.exc # <<>> /\ MarkupFault(ErrorNotice(r.exc)) # <<>>
                   THEN "MarkupError" ELSE "none"] :
          r \in {ToolLoop(f, tool_calls, 1, <<>>)} } : TRUE

S_tag == PyStr(Lit(<<"[", "/", "x", "]">>))
S_bal == PyStr(Lit(<<"[", "b", "]", "a", "[", "/", "b", "]">>))

\* Function calls of a response: ones that succeed, ones that return a
\* failure, an unknown name, and snippets or content holding markup.
LoopCalls ==
    { [name |-> "read_file", args |-> [file_path |-> P_b]],
      [name |-> "create_file", args |-> [file_path |-> P_b, content |-> C_aba]],
      [name |-> "create_file", args |-> [file_path |-> P_a, content |-> S_bal]],
      [name |-> "edit_file",
       args |-> [file_path |-> P_a, original_snippet |-> S_a, new_snippet |-> S_c]],
      [name |-> "edit_file",
       args |-> [file_path |-> P_a, original_snippet |-> S_tag, new_snippet |-> S_c]],
      [name |-> "list_directory", args |-> <<>>],
      [name |-> "delete_file", args |-> [file_path |-> P_a]] }

StreamGeminiResponse ==
    /\ call.op = "none"
    /\ steps < MaxSteps
    /\ \E tool_calls \in SeqsUpTo(LoopCalls, MaxCalls) :
        \E r \in {stream_gemini_response(fs, tool_calls)} :
            /\ steps' = steps + 1
            /\ call' = [op |-> "stream_gemini_response",
                        args |-> [tool_calls |-> tool_calls]]
            /\ fs' = r.fs
            /\ result' = [executed |-> r.executed, exc |-> r.exc]
            /\ acc' = {}

NextLoop == StreamGeminiResponse

SpecLoop == Init /\ [][NextLoop]_vars

\* The filesystem after the first k calls of a response have each been
\* executed once, in order.
RECURSIVE FsAfter(_, _, _)
FsAfter(f, tool_calls, k) ==
    IF k = 0 THEN f
    ELSE CHOOSE after \in
             { execute_tool(g, tool_calls[k].name, Parameters(tool_calls[k])).fs :
               g \in {FsAfter(f, tool_calls, k - 1)} } : TRUE

\* C24: the function calls of one response are executed one at a time in
\* the order received, each exactly once: the k-th executed call is the
\* k-th call of the response, run on the filesystem the calls before it
\* left, and every call of the response is executed, whatever failure
\* result or exception an earlier call met.
C24_EachCallOnceInOrder ==
    [][call'.op = "stream_gemini_response" =>
        LET tool_calls == call'.args.tool_calls
            log == result'.executed
        IN  /\ Len(log) = Len(tool_calls)
            /\ \A k \in 1..Len(log) :
                   /\ log[k].i = k
                   /\ log[k].tool_name = tool_calls[k].name
                   /\ log[k].parameters = Parameters(tool_calls[k])
                   /\ log[k].result =
                          execute_tool(FsAfter(fs, tool_calls, k - 1),
                                       tool_calls[k].name,
                                       Parameters(tool_calls[k])).res
            /\ fs' = FsAfter(fs, tool_calls, Len(tool_calls))]_vars

====
